---------------------------- MODULE Spec2Model ----------------------------
(***************************************************************************)
(* g2n-mcp-gcal-sse: the OAuth2 credential lifecycle (TokenManager,        *)
(* OAuthHandler, GoogleCalendarService, Server.start, the /oauth/callback  *)
(* and /revoke routes) and the streaming session registry (the /sse and    *)
(* /messages routes with their heartbeat).                                 *)
(*                                                                         *)
(* Node runs one event loop.  A handler runs without interruption until it *)
(* awaits I/O (the token file, the OAuth2 provider, the MCP SDK); an await *)
(* of an already settled promise is resumed in the same macrotask, before  *)
(* any timer or I/O callback, and is therefore part of the same step.      *)
(* Every action below is one such uninterrupted segment of a handler.      *)
(*                                                                         *)
(* Time is counted in units of 7.5 minutes.                                *)
(***************************************************************************)
EXTENDS Integers, FiniteSets, Sequences, TLC

\* ------------------------------------------------------------- bounds
MaxNow == 4            \* the clock stops advancing here
MaxChains == 2         \* checkAndRefreshToken closures that can be alive at once
MaxCallbacks == 1      \* GET /oauth/callback requests served
MaxRevokes == 1        \* POST /revoke requests served
MaxSessions == 2       \* GET /sse connections accepted

\* ------------------------------------------------- program constants
RefreshLeadTime == 2   \* 15 * 60 * 1000 ms
TokenRefreshInterval == 4  \* 30 * 60 * 1000 ms

\* --------------------------------------------------------- data model
Absent == 0            \* an undefined / null field of Credentials

Null == [null |-> TRUE]             \* TokenManager.tokens = null
NoFile == [file |-> "absent"]       \* tokenStoragePath does not exist
Corrupt == [file |-> "corrupt"]     \* the file exists and is not valid JSON

CredentialFields == {"access_token", "refresh_token", "expiry_date"}

Creds(a, r, e) == [access_token |-> a, refresh_token |-> r, expiry_date |-> e]

\* JSON.stringify(credentials): an undefined field is left out of the text.
Stringify(c) == [f \in {g \in CredentialFields : c[g] # Absent} |-> c[f]]

\* JSON.parse(tokensData): a field the text lacks reads as undefined.
Parse(text) == [f \in CredentialFields |-> IF f \in DOMAIN text THEN text[f] ELSE Absent]

IsJson(f) == "file" \notin DOMAIN f

ChainIds == 1..MaxChains
\* The provider's answers: the refresh token it grants with a code exchange,
\* the one it rotates to on a refresh (each may be left out of the answer), and
\* the lifetime (expires_in) of an access token.
GrantedRefreshToken == 1
RotatedRefreshToken == 2
AccessTokenLifetime == 1

\* What the token file can hold when the process starts: nothing, garbage,
\* or Credentials written by an earlier run (or edited by hand).
InitialFiles ==
  {NoFile, Corrupt} \cup
  {Stringify(c) : c \in {Creds(1, GrantedRefreshToken, 1),
                         Creds(1, GrantedRefreshToken, 4),
                         Creds(1, Absent, 4)}}

\* What the provider's token endpoint can answer at time t, given the
\* refresh token r it would include.
ProviderTokens(t, r) ==
  {Creds(1, x, e) : x \in {Absent, r}, e \in {Absent, t + AccessTokenLifetime}}

VARIABLES
  now,                  \* Date.now()
  tokens,               \* TokenManager.tokens (the in-memory cache)
  file,                 \* the content of config.tokenStoragePath
  refreshTimerId,       \* TokenManager.refreshTimerId: 0 or the chain whose timer it is
  tokenRefreshListener, \* TokenManager.tokenRefreshListener is set
  chains,               \* the checkAndRefreshToken closures
  client,               \* the credentials of OAuthHandler.client
  calendar,             \* GoogleCalendarService.calendar is not null
  mcpServer,            \* Server.mcpServer is defined
  st,                   \* Server.start
  cb,                   \* the GET /oauth/callback request in progress
  rv,                   \* the POST /revoke request in progress
  served                \* requests accepted so far, by route

credVars == <<now, tokens, file, refreshTimerId, tokenRefreshListener, chains,
              client, calendar, mcpServer, st, cb, rv, served>>

\* the session registry's state (its actions are further down)
VARIABLES
  transports,          \* Server.transports: session id -> transport, or Absent
  heartbeatIntervals,  \* Server.heartbeatIntervals: session id -> handle, or Absent
  intervals,           \* the setInterval timers that have not been cleared
  sse,                 \* the GET /sse request (and its response stream) of each id
  msg,                 \* the POST /messages request in progress
  responses,           \* the answers the two routes have given
  received             \* the transports a message was handed to

regVars == <<transports, heartbeatIntervals, intervals, sse, msg, responses, received>>

\* the credential state but for Server.mcpServer
credRest == <<now, tokens, file, refreshTimerId, tokenRefreshListener, chains,
              client, calendar, st, cb, rv, served>>

\* a caller of the TokenManager taken alone (its actions are further down)
VARIABLES
  tm,                  \* the TokenManager call in progress and how the last one ended
  rf                   \* the direct refreshAccessToken(tokens) call in progress, likewise

storeVars == <<tm, rf>>

VARIABLES
  activeConnections,   \* index.ts activeConnections: session id -> response, or Absent
  opened               \* the GET /sse requests index.ts has served, in order

indexVars == <<activeConnections, opened>>

\* The TokenManager / GoogleCalendarService / Server fields as one record, so
\* that the synchronous parts of the code compose as functions of it.
\* overflow: a step needed more closures than MaxChains allows.

S == [now |-> now, tokens |-> tokens, file |-> file,
      refreshTimerId |-> refreshTimerId,
      tokenRefreshListener |-> tokenRefreshListener, chains |-> chains,
      client |-> client, calendar |-> calendar, mcpServer |-> mcpServer,
      overflow |-> FALSE]

Commit(s) ==
  /\ ~s.overflow
  /\ tokens' = s.tokens
  /\ file' = s.file
  /\ refreshTimerId' = s.refreshTimerId
  /\ tokenRefreshListener' = s.tokenRefreshListener
  /\ chains' = s.chains
  /\ client' = s.client
  /\ calendar' = s.calendar
  /\ mcpServer' = s.mcpServer

\* ------------------------------------------------------- TokenManager

\* getTokens resolves without I/O when the cache is populated or no file exists;
\* otherwise it awaits readFile.
getTokensAwaitsRead_always(s) == s.file # NoFile

getTokensAwaitsRead(s) == s.tokens = Null /\ s.file # NoFile

\* getTokens after readFile settled: ok is whether the read succeeded.
getTokensRead(s, ok) ==
  IF ok /\ IsJson(s.file)
    THEN [s EXCEPT !.tokens = Parse(s.file)]
    ELSE [s EXCEPT !.tokens = Null]

\* what getTokens() returns from s when its read of the file succeeds
getTokensValueOf(s) ==
  IF s.tokens # Null THEN s.tokens
  ELSE IF IsJson(s.file) THEN Parse(s.file) ELSE Null

\* saveTokens up to its await of writeFile.
saveTokensBegin(s, credentials) == [s EXCEPT !.tokens = credentials]

\* writeFile settled: written in full, or refused with the file as it was.
WriteOutcomes == {"written", "refused"}

saveTokensWrite_merges(s, credentials, outcome) ==
  IF outcome = "written"
    THEN [s EXCEPT !.file =
            IF IsJson(s.file)
              THEN [f \in DOMAIN s.file \cup DOMAIN Stringify(credentials) |->
                      IF f \in DOMAIN Stringify(credentials)
                        THEN credentials[f] ELSE s.file[f]]
              ELSE Stringify(credentials)]
    ELSE s

saveTokensWrite(s, credentials, outcome) ==
  IF outcome = "written" THEN [s EXCEPT !.file = Stringify(credentials)] ELSE s

hasValidTokensOf(t) ==
  IF t = Null THEN FALSE
  ELSE IF t.expiry_date # Absent THEN t.refresh_token # Absent
  ELSE FALSE

\* A checkAndRefreshToken closure: where it is suspended, the tokens it passed
\* to the listener, the tokens it is saving, and when its timer is due.
\* response (the refresh token of the provider's answer as received), last
\* (how the closure's latest check ended), by (what started the check in
\* progress) and the numbers of listener invocations and provider refresh
\* calls of the latest check are kept for the properties only.
FreeChain == [pc |-> "free", tokens |-> Null, newTokens |-> Null,
              response |-> Absent, due |-> 0, last |-> "none", by |-> "none",
              listenerCalls |-> 0, providerCalls |-> 0]

\* a closure suspended at pc, keeping the counts of the check in progress
Suspended(chain, pc) ==
  [FreeChain EXCEPT !.pc = pc, !.by = chain.by,
                    !.listenerCalls = chain.listenerCalls,
                    !.providerCalls = chain.providerCalls]

clearTimeout(s, h) ==
  IF h \in ChainIds /\ s.chains[h].pc = "timer"
    THEN [s EXCEPT !.chains[h] = FreeChain]
    ELSE s

cancelRefreshTimer(s) ==
  IF s.refreshTimerId # 0
    THEN [clearTimeout(s, s.refreshTimerId) EXCEPT !.refreshTimerId = 0]
    ELSE s

\* clearTokens up to its await of unlink.
clearTokensBegin(s) == [s EXCEPT !.tokens = Null]

clearTokensAwaitsUnlink(s) == s.file # NoFile

\* clearTokens after the file is gone.
clearTokensEnd(s) == cancelRefreshTimer(s)

scheduleNextCheck_unlessFailed(s, c, outcome) ==
  IF outcome = "failed"
    THEN [s EXCEPT !.chains[c] = FreeChain]
    ELSE [s EXCEPT !.refreshTimerId = c,
                   !.chains[c] = [Suspended(s.chains[c], "timer") EXCEPT
                                    !.last = outcome, !.by = "none",
                                    !.due = s.now + TokenRefreshInterval]]

\* the end of checkAndRefreshToken: this.refreshTimerId = setTimeout(...)
scheduleNextCheck(s, c, outcome) ==
  [s EXCEPT !.refreshTimerId = c,
            !.chains[c] = [Suspended(s.chains[c], "timer") EXCEPT
                             !.last = outcome, !.by = "none",
                             !.due = s.now + TokenRefreshInterval]]

\* GoogleCalendarService.setupClientWithTokens once getTokens returned t # null
buildClient(s, t) == [s EXCEPT !.client = t, !.calendar = TRUE]

missingRefreshToken_never(t) == FALSE

\* if (!tokens.refresh_token) throw new Error('Refresh token não disponível')
missingRefreshToken(t) == t.refresh_token = Absent

\* refreshAccessToken(tokens) up to its await of client.refreshAccessToken()
refreshAccessTokenBegin(s, c, t) ==
  IF missingRefreshToken(t)
    THEN scheduleNextCheck(s, c, "threw")
    ELSE [s EXCEPT !.client = t,
                   !.chains[c] = [Suspended(s.chains[c], "refreshing") EXCEPT
                                    !.tokens = t, !.providerCalls = @ + 1]]

\* await this.tokenRefreshListener(tokens)
invokeListener(s, c) == [s EXCEPT !.chains[c].listenerCalls = @ + 1]

shouldRefresh_always(s, t) == TRUE

\* const shouldRefresh = timeToExpiry < 15 * 60 * 1000
shouldRefresh(s, t) == t.expiry_date - s.now < RefreshLeadTime

\* checkAndRefreshToken once getTokens returned t
checkWithTokens(s, c, t) ==
  IF /\ t # Null
     /\ t.expiry_date # Absent
     /\ t.refresh_token # Absent
     /\ shouldRefresh(s, t)
     /\ s.tokenRefreshListener
    THEN refreshAccessTokenBegin(invokeListener(s, c), c, t)
    ELSE scheduleNextCheck(s, c, "skipped")

\* a run of checkAndRefreshToken from its first line; by is "setup" for the
\* call at the end of setupTokenRefresh and "timer" for a timer's callback
checkAndRefreshToken(s, c, by) ==
  LET s0 == [s EXCEPT !.chains[c] = [FreeChain EXCEPT !.by = by]]
  IN IF getTokensAwaitsRead(s0)
       THEN [s0 EXCEPT !.chains[c] = Suspended(s0.chains[c], "read")]
       ELSE checkWithTokens(s0, c, s0.tokens)

setupTokenRefresh(s) ==
  LET s1 == cancelRefreshTimer([s EXCEPT !.tokenRefreshListener = TRUE])
      free == {c \in ChainIds : s1.chains[c].pc = "free"}
  IN IF free = {}
       THEN [s1 EXCEPT !.overflow = TRUE]
       ELSE checkAndRefreshToken(s1, CHOOSE c \in free : \A d \in free : c <= d,
                                 "setup")

\* ------------------------------------------- GoogleCalendarService.initialize

\* initialize() once hasValidTokens' getTokens returned t: the client is built
\* and the refresh cycle started only when the stored tokens are valid.
initializeWith_always(s, t) == setupTokenRefresh(buildClient(s, t))

initializeWith(s, t) ==
  IF hasValidTokensOf(t) THEN setupTokenRefresh(buildClient(s, t)) ELSE s

\* Server.start / the callback route after initialize() returned
initializeMcpServer(s, isInitialized) ==
  IF isInitialized THEN [s EXCEPT !.mcpServer = TRUE] ELSE s

\* ---------------------------------------------------------- Server.start
StartInitialize ==
  /\ st = "start"
  /\ IF getTokensAwaitsRead(S)
       THEN /\ st' = "initRead"
            /\ Commit(S)
       ELSE /\ st' = "listening"
            /\ Commit(initializeMcpServer(initializeWith(S, tokens),
                                          hasValidTokensOf(tokens)))
  /\ UNCHANGED <<indexVars, regVars, storeVars, now, cb, rv, served>>

StartRead(ok) ==
  /\ st = "initRead"
  /\ LET s1 == getTokensRead(S, ok)
     IN Commit(initializeMcpServer(initializeWith(s1, s1.tokens),
                                   hasValidTokensOf(s1.tokens)))
  /\ st' = "listening"
  /\ UNCHANGED <<indexVars, regVars, storeVars, now, cb, rv, served>>

\* ------------------------------------------------- checkAndRefreshToken
TimerFires(c) ==
  /\ chains[c].pc = "timer"
  /\ now >= chains[c].due
  /\ Commit(checkAndRefreshToken(S, c, "timer"))
  /\ UNCHANGED <<indexVars, regVars, storeVars, now, st, cb, rv, served>>

CheckRead(c, ok) ==
  /\ chains[c].pc = "read"
  /\ LET s1 == getTokensRead(S, ok)
     IN Commit(checkWithTokens(s1, c, s1.tokens))
  /\ UNCHANGED <<indexVars, regVars, storeVars, now, st, cb, rv, served>>

\* refreshAccessToken after the provider answered: the old refresh token is
\* carried over when the answer has none, then saveTokens is called.
carryRefreshToken_dropped(response, t) == response

carryRefreshToken(response, t) ==
  IF response.refresh_token = Absent /\ t.refresh_token # Absent
    THEN [response EXCEPT !.refresh_token = t.refresh_token]
    ELSE response

refreshAccessTokenResponse(s, c, response) ==
  LET new == carryRefreshToken(response, s.chains[c].tokens)
  IN [saveTokensBegin(s, new) EXCEPT
        !.chains[c] = [s.chains[c] EXCEPT !.pc = "saving", !.newTokens = new,
                                          !.response = response.refresh_token]]

\* client.refreshAccessToken() rejected: refreshAccessToken rethrows, the
\* check logs the error and schedules the next check.
refreshAccessTokenFailed_clears(s, c) ==
  scheduleNextCheck(clearTokensBegin(s), c, "failed")

refreshAccessTokenFailed_retries(s, c) ==
  [s EXCEPT !.chains[c].providerCalls = @ + 1]

refreshAccessTokenFailed(s, c) == scheduleNextCheck(s, c, "failed")

RefreshResponse(c, response) ==
  /\ chains[c].pc = "refreshing"
  /\ Commit(refreshAccessTokenResponse(S, c, response))
  /\ UNCHANGED <<indexVars, regVars, storeVars, now, st, cb, rv, served>>

RefreshFails(c) ==
  /\ chains[c].pc = "refreshing"
  /\ Commit(refreshAccessTokenFailed(S, c))
  /\ UNCHANGED <<indexVars, regVars, storeVars, now, st, cb, rv, served>>

\* writeFile of the refreshed tokens settled; then setupClientWithTokens.
RefreshSaved(c, outcome) ==
  /\ chains[c].pc = "saving"
  /\ LET s1 == saveTokensWrite(S, chains[c].newTokens, outcome)
     IN IF outcome # "written"
          THEN Commit(scheduleNextCheck(s1, c, "threw"))
          ELSE IF getTokensAwaitsRead(s1)
            THEN Commit([s1 EXCEPT !.chains[c] = Suspended(s1.chains[c], "setup")])
            ELSE Commit(scheduleNextCheck(buildClient(s1, s1.tokens), c, "refreshed"))
  /\ UNCHANGED <<indexVars, regVars, storeVars, now, st, cb, rv, served>>

RefreshSetupRead(c, ok) ==
  /\ chains[c].pc = "setup"
  /\ LET s1 == getTokensRead(S, ok)
     IN IF s1.tokens = Null
          THEN Commit(scheduleNextCheck(s1, c, "threw"))
          ELSE Commit(scheduleNextCheck(buildClient(s1, s1.tokens), c, "refreshed"))
  /\ UNCHANGED <<indexVars, regVars, storeVars, now, st, cb, rv, served>>

\* ------------------------------------------------ GET /oauth/callback
CbIdle(result) == [pc |-> "idle", tokens |-> Null, result |-> result]

\* the route after handleAuthCode resolved: initialize(), whose getTokens
\* finds the cache populated, then initializeMcpServer() and the response
callbackInitialize(s) ==
  initializeMcpServer(initializeWith(s, s.tokens), hasValidTokensOf(s.tokens))

callbackResult(s) == IF hasValidTokensOf(s.tokens) THEN "ok" ELSE "init_failed"

CallbackStart ==
  /\ st = "listening"
  /\ cb.pc = "idle"
  /\ served.callback < MaxCallbacks
  /\ served' = [served EXCEPT !.callback = @ + 1]
  /\ cb' = [pc |-> "getToken", tokens |-> Null, result |-> "none"]
  /\ UNCHANGED <<indexVars, regVars, storeVars, now, tokens, file, refreshTimerId, tokenRefreshListener, chains,
                 client, calendar, mcpServer, st, rv>>

exchangeCodeFailed_clears(s) == cancelRefreshTimer(clearTokensBegin(s))

\* client.getToken(code) rejected: exchangeCode rethrows, handleAuthCode
\* rethrows, the route answers 500
exchangeCodeFailed(s) == s

ExchangeFails ==
  /\ cb.pc = "getToken"
  /\ cb' = CbIdle("error")
  /\ Commit(exchangeCodeFailed(S))
  /\ UNCHANGED <<indexVars, regVars, storeVars, now, st, rv, served>>

\* exchangeCode once client.getToken(code) answered: "rejected" when the
\* answer has no refresh token, else up to the await of writeFile in saveTokens
exchangeCodeAccepts_any(response) == TRUE

exchangeCodeAccepts(response) == response.refresh_token # Absent

ExchangeResponse(response) ==
  /\ cb.pc = "getToken"
  /\ IF exchangeCodeAccepts(response)
       THEN /\ cb' = [cb EXCEPT !.pc = "save1", !.tokens = response]
            /\ Commit(saveTokensBegin(S, response))
       ELSE /\ cb' = CbIdle("no_refresh_token")
            /\ Commit(S)
  /\ UNCHANGED <<indexVars, regVars, storeVars, now, st, rv, served>>

\* the writeFile of exchangeCode's saveTokens settled; on success
\* client.setCredentials(tokens), then handleAuthCode calls saveTokens again
ExchangeSaved(outcome) ==
  /\ cb.pc = "save1"
  /\ LET s1 == saveTokensWrite(S, cb.tokens, outcome)
     IN IF outcome # "written"
          THEN /\ cb' = CbIdle("error")
               /\ Commit(s1)
          ELSE /\ cb' = [cb EXCEPT !.pc = "save2"]
               /\ Commit(saveTokensBegin([s1 EXCEPT !.client = cb.tokens], cb.tokens))
  /\ UNCHANGED <<indexVars, regVars, storeVars, now, st, rv, served>>

\* the writeFile of handleAuthCode's saveTokens settled; on success
\* setupClientWithTokens, then the route goes on to initialize()
AuthCodeSaved(outcome) ==
  /\ cb.pc = "save2"
  /\ LET s1 == saveTokensWrite(S, cb.tokens, outcome)
     IN IF outcome # "written"
          THEN /\ cb' = CbIdle("error")
               /\ Commit(s1)
          ELSE IF getTokensAwaitsRead(s1)
            THEN /\ cb' = [cb EXCEPT !.pc = "setup"]
                 /\ Commit(s1)
            ELSE LET s2 == buildClient(s1, s1.tokens)
                 IN /\ cb' = CbIdle(callbackResult(s2))
                    /\ Commit(callbackInitialize(s2))
  /\ UNCHANGED <<indexVars, regVars, storeVars, now, st, rv, served>>

AuthCodeSetupRead(ok) ==
  /\ cb.pc = "setup"
  /\ LET s1 == getTokensRead(S, ok)
     IN IF s1.tokens = Null
          THEN /\ cb' = CbIdle("error")
               /\ Commit(s1)
          ELSE LET s2 == buildClient(s1, s1.tokens)
               IN /\ cb' = CbIdle(callbackResult(s2))
                  /\ Commit(callbackInitialize(s2))
  /\ UNCHANGED <<indexVars, regVars, storeVars, now, st, rv, served>>

\* ------------------------------------------------------- POST /revoke
\* before: what getTokens() returned when the clearTokens call in progress
\* was made
RvIdle(r, result, providerFailed) ==
  [r EXCEPT !.pc = "idle", !.result = result, !.providerFailed = providerFailed,
            !.before = Null]

\* revokeAccess after its last clearTokens() returned
revokeAccessEnd(s) == [s EXCEPT !.calendar = FALSE]

\* revokeAccess's own clearTokens() call: up to the await of unlink, or to the
\* end of revokeAccess when there is no file to remove
RevokeClear(s, r) ==
  LET s1 == clearTokensBegin(s)
  IN IF clearTokensAwaitsUnlink(s1)
       THEN /\ rv' = [r EXCEPT !.pc = "unlink2", !.before = getTokensValueOf(s)]
            /\ Commit(s1)
       ELSE /\ rv' = RvIdle(r, "ok", FALSE)
            /\ Commit(revokeAccessEnd(clearTokensEnd(s1)))

\* revokeAccess once getTokens returned t; revokeTokens' own getTokens finds
\* the cache as it is and takes the same branch
revokeCallsProvider_always(t) == TRUE

revokeCallsProvider(t) == t # Null /\ t.access_token # Absent

RevokeWithTokens(s, t, r) ==
  IF revokeCallsProvider(t)
    THEN /\ rv' = [r EXCEPT !.pc = "revoking"]
         /\ Commit(s)
    ELSE RevokeClear(s, r)

RevokeStart ==
  /\ st = "listening"
  /\ rv.pc = "idle"
  /\ served.revoke < MaxRevokes
  /\ served' = [served EXCEPT !.revoke = @ + 1]
  /\ LET r == [pc |-> "read", result |-> "none", providerFailed |-> FALSE,
               before |-> Null]
     IN IF getTokensAwaitsRead(S)
          THEN /\ rv' = r
               /\ Commit(S)
          ELSE RevokeWithTokens(S, tokens, r)
  /\ UNCHANGED <<indexVars, regVars, storeVars, now, st, cb>>

RevokeRead(ok) ==
  /\ rv.pc = "read"
  /\ LET s1 == getTokensRead(S, ok)
     IN RevokeWithTokens(s1, s1.tokens, rv)
  /\ UNCHANGED <<indexVars, regVars, storeVars, now, st, cb, served>>

\* client.revokeToken rejected: revokeTokens rethrows, revokeAccess rethrows,
\* the route answers 500
revokeTokensFailed(s) == s

RevokeProviderFails ==
  /\ rv.pc = "revoking"
  /\ rv' = RvIdle(rv, "error", TRUE)
  /\ Commit(revokeTokensFailed(S))
  /\ UNCHANGED <<indexVars, regVars, storeVars, now, st, cb, served>>

\* client.revokeToken resolved: revokeTokens calls clearTokens
RevokeProviderDone ==
  /\ rv.pc = "revoking"
  /\ LET s1 == clearTokensBegin(S)
     IN IF clearTokensAwaitsUnlink(s1)
          THEN /\ rv' = [rv EXCEPT !.pc = "unlink1", !.before = getTokensValueOf(S)]
               /\ Commit(s1)
          ELSE RevokeClear(clearTokensEnd(s1), rv)
  /\ UNCHANGED <<indexVars, regVars, storeVars, now, st, cb, served>>

\* unlink settled: it fails when refused or when the file is already gone
unlinkSucceeds(s, ok) == ok /\ s.file # NoFile

\* the unlink of revokeTokens' clearTokens settled
RevokeTokensUnlinked(ok) ==
  /\ rv.pc = "unlink1"
  /\ IF unlinkSucceeds(S, ok)
       THEN RevokeClear(clearTokensEnd([S EXCEPT !.file = NoFile]), rv)
       ELSE /\ rv' = RvIdle(rv, "error", FALSE)
            /\ Commit(S)
  /\ UNCHANGED <<indexVars, regVars, storeVars, now, st, cb, served>>

\* the unlink of revokeAccess' clearTokens settled
RevokeAccessUnlinked(ok) ==
  /\ rv.pc = "unlink2"
  /\ IF unlinkSucceeds(S, ok)
       THEN /\ rv' = RvIdle(rv, "ok", FALSE)
            /\ Commit(revokeAccessEnd(clearTokensEnd([S EXCEPT !.file = NoFile])))
       ELSE /\ rv' = RvIdle(rv, "error", FALSE)
            /\ Commit(S)
  /\ UNCHANGED <<indexVars, regVars, storeVars, now, st, cb, served>>

\* ---------------------------------------------------------------- clock
Tick ==
  /\ now < MaxNow
  /\ now' = now + 1
  /\ UNCHANGED <<indexVars, regVars, storeVars, tokens, file, refreshTimerId, tokenRefreshListener, chains,
                 client, calendar, mcpServer, st, cb, rv, served>>

\* ------------------------------------------------ index.ts GET /sse

MaxOpens == 3
MaxRandom == 2

\* Math.random().toString(36).substring(2): the values the generator can give
RandomSuffixes == 1..MaxRandom

\* Date.now().toString(36) + Math.random().toString(36).substring(2)
IndexSessionIds == (0..MaxNow) \X RandomSuffixes

sessionIdOf(t, random) == <<t, random>>

\* app.get('/sse'): activeConnections[sessionId] = res
IndexSseOpen(random) ==
  /\ Len(opened) < MaxOpens
  /\ LET sessionId == sessionIdOf(now, random)
         res == Len(opened) + 1
     IN /\ activeConnections' = [activeConnections EXCEPT ![sessionId] = res]
        /\ opened' = Append(opened, [sessionId |-> sessionId, closed |-> FALSE,
                                     writable |-> TRUE, keepAlive |-> TRUE,
                                     frames |-> {}])
  /\ UNCHANGED <<credVars, regVars, storeVars>>

\* res.on('close'): clearInterval(keepAlive); delete activeConnections[sessionId]
IndexSseClose(res) ==
  /\ res \in 1..Len(opened)
  /\ ~opened[res].closed
  /\ activeConnections' = [activeConnections EXCEPT ![opened[res].sessionId] = Absent]
  /\ opened' = [opened EXCEPT ![res].closed = TRUE, ![res].writable = FALSE,
                              ![res].keepAlive = FALSE]
  /\ UNCHANGED <<credVars, regVars, storeVars>>

\* The connection of request res breaks; its 'close' has not been emitted yet.
IndexChannelDies(res) ==
  /\ res \in 1..Len(opened)
  /\ opened[res].writable
  /\ opened' = [opened EXCEPT ![res].writable = FALSE]
  /\ UNCHANGED <<activeConnections, credVars, regVars, storeVars>>

\* The keepAlive interval of request res fires: res.write(': keepalive') while
\* activeConnections has an entry under the id; a write that throws, or no
\* entry, clears the interval.  frames records, for every frame written, whether
\* the channel was writable and whether its 'close' had been handled.
IndexKeepAliveFires(res, writeThrows) ==
  /\ res \in 1..Len(opened)
  /\ opened[res].keepAlive
  /\ LET sessionId == opened[res].sessionId
     IN IF activeConnections[sessionId] # Absent
          THEN IF ~writeThrows
                 THEN /\ opened' = [opened EXCEPT ![res].frames = @ \cup
                                      {[writable |-> opened[res].writable,
                                        closed |-> opened[res].closed]}]
                      /\ UNCHANGED activeConnections
                 ELSE /\ opened' = [opened EXCEPT ![res].keepAlive = FALSE]
                      /\ activeConnections' =
                           [activeConnections EXCEPT ![sessionId] = Absent]
          ELSE /\ opened' = [opened EXCEPT ![res].keepAlive = FALSE]
               /\ UNCHANGED activeConnections
  /\ UNCHANGED <<credVars, regVars, storeVars>>

IndexInit ==
  /\ activeConnections = [id \in IndexSessionIds |-> Absent]
  /\ opened = <<>>

IndexNext ==
  \/ \E random \in RandomSuffixes : IndexSseOpen(random)
  \/ \E res \in 1..MaxOpens : IndexSseClose(res)
  \/ Tick

\* the keepAlive interval of index.ts with the events of its connection
KeepAliveNext ==
  \/ \E random \in RandomSuffixes : IndexSseOpen(random)
  \/ \E res \in 1..MaxOpens : IndexSseClose(res)
  \/ \E res \in 1..MaxOpens : IndexChannelDies(res)
  \/ \E res \in 1..MaxOpens, writeThrows \in BOOLEAN : IndexKeepAliveFires(res, writeThrows)

\* ----------------------------------------------------- specification
CredInit ==
  /\ now = 0
  /\ tokens = Null
  /\ file \in InitialFiles
  /\ refreshTimerId = 0
  /\ tokenRefreshListener = FALSE
  /\ chains = [c \in ChainIds |-> FreeChain]
  /\ client = Null
  /\ calendar = FALSE
  /\ mcpServer = FALSE
  /\ st = "start"
  /\ cb = CbIdle("none")
  /\ rv = [pc |-> "idle", result |-> "none", providerFailed |-> FALSE,
           before |-> Null]
  /\ served = [callback |-> 0, revoke |-> 0]

CredNext ==
  \/ StartInitialize
  \/ \E ok \in BOOLEAN : StartRead(ok)
  \/ \E c \in ChainIds : TimerFires(c)
  \/ \E c \in ChainIds, ok \in BOOLEAN : CheckRead(c, ok)
  \/ \E c \in ChainIds, r \in ProviderTokens(now, RotatedRefreshToken) :
        RefreshResponse(c, r)
  \/ \E c \in ChainIds : RefreshFails(c)
  \/ \E c \in ChainIds, o \in WriteOutcomes : RefreshSaved(c, o)
  \/ \E c \in ChainIds, ok \in BOOLEAN : RefreshSetupRead(c, ok)
  \/ CallbackStart
  \/ ExchangeFails
  \/ \E r \in ProviderTokens(now, GrantedRefreshToken) : ExchangeResponse(r)
  \/ \E o \in WriteOutcomes : ExchangeSaved(o)
  \/ \E o \in WriteOutcomes : AuthCodeSaved(o)
  \/ \E ok \in BOOLEAN : AuthCodeSetupRead(ok)
  \/ RevokeStart
  \/ \E ok \in BOOLEAN : RevokeRead(ok)
  \/ RevokeProviderFails
  \/ RevokeProviderDone
  \/ \E ok \in BOOLEAN : RevokeTokensUnlinked(ok)
  \/ \E ok \in BOOLEAN : RevokeAccessUnlinked(ok)
  \/ Tick

\* =============================================== the session registry
\* Server.transports and Server.heartbeatIntervals, shared by the /sse and
\* /messages routes.  A transport object and the interval timer a /sse handler
\* creates are named by the id of the session that created them.
SessionIds == 1..MaxSessions

R == [transports |-> transports, heartbeatIntervals |-> heartbeatIntervals,
      intervals |-> intervals]

CommitRegistry(r) ==
  /\ transports' = r.transports
  /\ heartbeatIntervals' = r.heartbeatIntervals
  /\ intervals' = r.intervals

UnusedSse == [pc |-> "unused", writable |-> FALSE, closed |-> FALSE, errored |-> FALSE]

\* clearInterval(handle); clearInterval(undefined) does nothing.
clearInterval(r, handle) == [r EXCEPT !.intervals = @ \ {handle}]

stopHeartbeat_all(r, transportId) ==
  [r EXCEPT !.intervals = {}, !.heartbeatIntervals[transportId] = Absent]

\* clearInterval(heartbeatIntervals[transportId]); delete heartbeatIntervals[transportId]
stopHeartbeat(r, transportId) ==
  [clearInterval(r, r.heartbeatIntervals[transportId])
     EXCEPT !.heartbeatIntervals[transportId] = Absent]

onClose_keepsTransport(r, transportId) ==
  IF r.heartbeatIntervals[transportId] # Absent
    THEN stopHeartbeat(r, transportId)
    ELSE r

\* res.on('close', ...)
onClose(r, transportId) ==
  LET r1 == IF r.heartbeatIntervals[transportId] # Absent
              THEN stopHeartbeat(r, transportId)
              ELSE r
  IN  [r1 EXCEPT !.transports[transportId] = Absent]

\* res.on('error', ...)
onError(r, transportId) ==
  LET r1 == IF r.heartbeatIntervals[transportId] # Absent
              THEN stopHeartbeat(r, transportId)
              ELSE r
  IN  [r1 EXCEPT !.transports[transportId] = Absent]

onHeartbeat_ignoresWritable(r, transportId, writable, writeThrows) ==
  IF ~writeThrows THEN r ELSE stopHeartbeat(r, transportId)

\* The setInterval callback: a written heartbeat changes nothing here; a
\* stream that is not writable, or a write that throws, stops the heartbeat.
onHeartbeat(r, transportId, writable, writeThrows) ==
  IF writable /\ ~writeThrows
    THEN r
    ELSE stopHeartbeat(r, transportId)

\* whether a session id was never handed out, is in use, or has been torn down
sessionState(id) ==
  IF sse[id].pc = "unused" THEN "never"
  ELSE IF sse[id].closed \/ sse[id].errored \/ sse[id].pc = "failed" THEN "closed"
  ELSE "open"

\* Server.initializeMcpServer, as Server.start and the OAuth callback call it
\* once the calendar service is initialized.
McpServerCreated ==
  /\ ~mcpServer
  /\ mcpServer' = TRUE
  /\ UNCHANGED <<indexVars, credRest, storeVars, regVars>>

\* checkMcpServerInitialized: no MCP server yet, the request is answered 401.
SseRejected ==
  /\ ~mcpServer
  /\ responses' = responses \cup {[route |-> "sse", was |-> "never", answer |-> "401"]}
  /\ UNCHANGED <<indexVars, credRest, storeVars, mcpServer, transports, heartbeatIntervals, intervals, sse, msg, received>>

\* GET /sse up to `await mcpServer.connect(transport)`.
SseOpen ==
  /\ mcpServer
  /\ \E transportId \in SessionIds :
       /\ sse[transportId].pc = "unused"
       /\ \A other \in SessionIds : other < transportId => sse[other].pc # "unused"
       /\ transports' = [transports EXCEPT ![transportId] = transportId]
       /\ sse' = [sse EXCEPT ![transportId] =
                    [pc |-> "connecting", writable |-> TRUE,
                     closed |-> FALSE, errored |-> FALSE]]
  /\ UNCHANGED <<indexVars, credRest, storeVars, mcpServer, heartbeatIntervals, intervals, msg, responses, received>>

\* mcpServer.connect resolved: the handler installs the heartbeat.
SseConnected(transportId) ==
  /\ sse[transportId].pc = "connecting"
  /\ sse' = [sse EXCEPT ![transportId].pc = "streaming"]
  /\ heartbeatIntervals' = [heartbeatIntervals EXCEPT ![transportId] = transportId]
  /\ intervals' = intervals \cup {transportId}
  /\ UNCHANGED <<indexVars, credRest, storeVars, mcpServer, transports, msg, responses, received>>

\* mcpServer.connect rejected: res.status(500).end().
SseConnectFails(transportId) ==
  /\ sse[transportId].pc = "connecting"
  /\ sse' = [sse EXCEPT ![transportId].pc = "failed", ![transportId].writable = FALSE]
  /\ responses' = responses \cup
       {[route |-> "sse", was |-> sessionState(transportId), answer |-> "500"]}
  /\ UNCHANGED <<indexVars, credRest, storeVars, mcpServer, transports, heartbeatIntervals, intervals, msg, received>>

\* The connection breaks; the stream's events have not been emitted yet.
ChannelDies(transportId) ==
  /\ sse[transportId].pc # "unused"
  /\ sse[transportId].writable
  /\ sse' = [sse EXCEPT ![transportId].writable = FALSE]
  /\ UNCHANGED <<indexVars, credRest, storeVars, mcpServer, transports, heartbeatIntervals, intervals, msg, responses, received>>

\* The response stream emits 'close' (once).
ResClose(transportId) ==
  /\ sse[transportId].pc # "unused"
  /\ ~sse[transportId].closed
  /\ sse' = [sse EXCEPT ![transportId].closed = TRUE, ![transportId].writable = FALSE]
  /\ CommitRegistry(onClose(R, transportId))
  /\ UNCHANGED <<indexVars, credRest, storeVars, mcpServer, msg, responses, received>>

\* The response stream emits 'error' (once, and never after 'close').
ResError(transportId) ==
  /\ sse[transportId].pc # "unused"
  /\ ~sse[transportId].closed
  /\ ~sse[transportId].errored
  /\ sse' = [sse EXCEPT ![transportId].errored = TRUE, ![transportId].writable = FALSE]
  /\ CommitRegistry(onError(R, transportId))
  /\ UNCHANGED <<indexVars, credRest, storeVars, mcpServer, msg, responses, received>>

\* The interval timer of session transportId fires.
HeartbeatFires(transportId, writeThrows) ==
  /\ transportId \in intervals
  /\ CommitRegistry(onHeartbeat(R, transportId, sse[transportId].writable, writeThrows))
  /\ UNCHANGED <<indexVars, credRest, storeVars, mcpServer, sse, msg, responses, received>>

\* ------------------------------------------------------ POST /messages
MsgIdle == [pc |-> "idle", sessionId |-> Absent, transport |-> Absent, was |-> "never"]

lookupTransport_first(r, sessionId) ==
  IF \E id \in SessionIds : r.transports[id] # Absent
    THEN r.transports[CHOOSE id \in SessionIds :
                        /\ r.transports[id] # Absent
                        /\ \A other \in SessionIds :
                             r.transports[other] # Absent => id <= other]
    ELSE Absent

\* const transport = transports[sessionId]
lookupTransport(r, sessionId) == r.transports[sessionId]

\* POST /messages up to `await transport.handlePostMessage(...)`, or to the
\* 400 answer when no transport is registered under the id.
MessagesStart(sessionId) ==
  /\ msg.pc = "idle"
  /\ LET transport == lookupTransport(R, sessionId)
     IN  IF transport # Absent
           THEN /\ msg' = [pc |-> "handling", sessionId |-> sessionId,
                           transport |-> transport, was |-> sessionState(sessionId)]
                /\ UNCHANGED responses
           ELSE /\ responses' = responses \cup
                     {[route |-> "messages", was |-> sessionState(sessionId),
                       answer |-> "400 No transport found for the sessionId"]}
                /\ UNCHANGED msg
  /\ UNCHANGED <<indexVars, credRest, storeVars, mcpServer, transports, heartbeatIntervals, intervals, sse, received>>

\* How transport.handlePostMessage can settle: the message was handed to the
\* transport and answered 202; the SDK answered with an error of its own; or
\* it threw, which the route logs without writing an answer.
PostMessageOutcomes == {"202", "sdk error", "threw"}

MessagesHandled(outcome) ==
  /\ msg.pc = "handling"
  /\ received' = IF outcome = "202" THEN received \cup {msg.transport} ELSE received
  /\ responses' = responses \cup
       {[route |-> "messages", was |-> msg.was,
         answer |-> IF outcome = "threw" THEN "none" ELSE outcome]}
  /\ msg' = MsgIdle
  /\ UNCHANGED <<indexVars, credRest, storeVars, mcpServer, transports, heartbeatIntervals, intervals, sse>>

RegInit ==
  /\ transports = [id \in SessionIds |-> Absent]
  /\ heartbeatIntervals = [id \in SessionIds |-> Absent]
  /\ intervals = {}
  /\ sse = [id \in SessionIds |-> UnusedSse]
  /\ msg = MsgIdle
  /\ responses = {}
  /\ received = {}

RegNext ==
  \/ McpServerCreated
  \/ SseRejected
  \/ SseOpen
  \/ \E id \in SessionIds : SseConnected(id)
  \/ \E id \in SessionIds : SseConnectFails(id)
  \/ \E id \in SessionIds : ChannelDies(id)
  \/ \E id \in SessionIds : ResClose(id)
  \/ \E id \in SessionIds : ResError(id)
  \/ \E id \in SessionIds, writeThrows \in BOOLEAN : HeartbeatFires(id, writeThrows)
  \/ \E id \in SessionIds : MessagesStart(id)
  \/ \E outcome \in PostMessageOutcomes : MessagesHandled(outcome)

\* ============================================ the TokenManager taken alone
\* One caller that saves and loads at will, and a process restart, which
\* leaves the file and starts again with an empty cache.
TokenSets ==
  {Creds(a, r, e) : a \in {Absent, 1},
                    r \in {Absent, GrantedRefreshToken, RotatedRefreshToken},
                    e \in {Absent, AccessTokenLifetime, MaxNow}}

\* op, result, value: the last call, how it ended and what it returned;
\* read, readOk: whether it read the file, and whether the read succeeded;
\* saved: the argument of the last saveTokens that returned;
\* replaced: a saveTokens has overwritten a file holding other tokens;
\* before: what getTokens() returned when the saveTokens or clearTokens call
\* in progress (or just ended) was made.
TmIdle == [pc |-> "idle", op |-> "none", arg |-> Null, result |-> "none",
           value |-> Null, read |-> FALSE, readOk |-> FALSE,
           saved |-> Null, replaced |-> FALSE, before |-> Null]

TmReturned(t, op, value, read, readOk) ==
  [t EXCEPT !.pc = "idle", !.op = op, !.arg = Null, !.result = "returned",
            !.value = value, !.read = read, !.readOk = readOk, !.before = Null]

\* getTokens(): answered from the cache, or null when there is no file, or
\* suspended in readFile
GetTokensCall ==
  /\ tm.pc = "idle"
  /\ IF getTokensAwaitsRead(S)
       THEN tm' = [tm EXCEPT !.pc = "getTokens", !.op = "getTokens",
                             !.result = "none", !.value = Null, !.before = Null]
       ELSE tm' = TmReturned(tm, "getTokens", tokens, FALSE, FALSE)
  /\ UNCHANGED <<rf, indexVars, credVars, regVars>>

\* readFile settled
GetTokensSettles(ok) ==
  /\ tm.pc = "getTokens"
  /\ LET s1 == getTokensRead(S, ok)
     IN /\ tokens' = s1.tokens
        /\ tm' = TmReturned(tm, "getTokens", s1.tokens, TRUE, ok)
  /\ UNCHANGED <<rf, indexVars, regVars, now, file, refreshTimerId, tokenRefreshListener, chains,
                 client, calendar, mcpServer, st, cb, rv, served>>

\* saveTokens(credentials) up to its await of writeFile
SaveTokensCall(credentials) ==
  /\ tm.pc = "idle"
  /\ tokens' = saveTokensBegin(S, credentials).tokens
  /\ tm' = [tm EXCEPT !.pc = "saveTokens", !.op = "saveTokens", !.arg = credentials,
                      !.result = "none", !.value = Null,
                      !.before = getTokensValueOf(S)]
  /\ UNCHANGED <<rf, indexVars, regVars, now, file, refreshTimerId, tokenRefreshListener, chains,
                 client, calendar, mcpServer, st, cb, rv, served>>

\* writeFile settled: saveTokens returns, or rethrows
SaveTokensSettles(outcome) ==
  /\ tm.pc = "saveTokens"
  /\ file' = saveTokensWrite(S, tm.arg, outcome).file
  /\ tm' = IF outcome = "written"
             THEN [tm EXCEPT !.pc = "idle", !.arg = Null, !.result = "returned",
                             !.saved = tm.arg, !.before = Null,
                             !.replaced = @ \/ (IsJson(file) /\ file # Stringify(tm.arg))]
             ELSE [tm EXCEPT !.pc = "idle", !.arg = Null, !.result = "threw"]
  /\ UNCHANGED <<rf, indexVars, regVars, now, tokens, refreshTimerId, tokenRefreshListener, chains,
                 client, calendar, mcpServer, st, cb, rv, served>>

\* The process is started again: a new TokenManager, whose tokens is null.
Restart ==
  /\ tm.pc = "idle"
  /\ tokens # Null
  /\ tokens' = Null
  /\ tm' = [tm EXCEPT !.op = "none", !.result = "none", !.value = Null,
                      !.read = FALSE, !.readOk = FALSE, !.before = Null]
  /\ UNCHANGED <<rf, indexVars, regVars, now, file, refreshTimerId, tokenRefreshListener, chains,
                 client, calendar, mcpServer, st, cb, rv, served>>

\* ------------------------- GoogleCalendarService.refreshAccessToken called
\* directly, with any TokenSet, once the server is listening.  providerCalls
\* and saves count the calls of client.refreshAccessToken() and of saveTokens
\* the call in progress (or the last one) has made.
RfIdle == [pc |-> "idle", arg |-> Null, new |-> Null, result |-> "none",
           providerCalls |-> 0, saves |-> 0]

RfReturned(r, result) == [r EXCEPT !.pc = "idle", !.new = Null, !.result = result]

\* up to the await of client.refreshAccessToken(), or to the throw
RefreshAccessTokenCall(t) ==
  /\ st = "listening"
  /\ rf.pc = "idle"
  /\ IF missingRefreshToken(t)
       THEN /\ rf' = RfReturned([RfIdle EXCEPT !.arg = t], "threw")
            /\ Commit(S)
       ELSE /\ rf' = [RfIdle EXCEPT !.pc = "refreshing", !.arg = t, !.providerCalls = 1]
            /\ Commit([S EXCEPT !.client = t])
  /\ UNCHANGED <<tm, indexVars, regVars, now, st, cb, rv, served>>

\* client.refreshAccessToken() rejected
RefreshAccessTokenRejected ==
  /\ rf.pc = "refreshing"
  /\ rf' = RfReturned(rf, "threw")
  /\ Commit(S)
  /\ UNCHANGED <<tm, indexVars, regVars, now, st, cb, rv, served>>

\* client.refreshAccessToken() answered: up to the await of writeFile
RefreshAccessTokenAnswered(response) ==
  /\ rf.pc = "refreshing"
  /\ LET new == carryRefreshToken(response, rf.arg)
     IN /\ rf' = [rf EXCEPT !.pc = "saving", !.new = new, !.saves = @ + 1]
        /\ Commit(saveTokensBegin(S, new))
  /\ UNCHANGED <<tm, indexVars, regVars, now, st, cb, rv, served>>

\* writeFile settled; then setupClientWithTokens, whose getTokens finds the
\* cache saveTokens populated
RefreshAccessTokenSaved(outcome) ==
  /\ rf.pc = "saving"
  /\ LET s1 == saveTokensWrite(S, rf.new, outcome)
     IN IF outcome # "written"
          THEN /\ rf' = RfReturned(rf, "threw")
               /\ Commit(s1)
          ELSE /\ rf' = RfReturned(rf, "returned")
               /\ Commit(buildClient(s1, s1.tokens))
  /\ UNCHANGED <<tm, indexVars, regVars, now, st, cb, rv, served>>

ServiceNext ==
  \/ StartInitialize
  \/ \E ok \in BOOLEAN : StartRead(ok)
  \/ \E t \in TokenSets : RefreshAccessTokenCall(t)
  \/ RefreshAccessTokenRejected
  \/ \E r \in ProviderTokens(now, RotatedRefreshToken) : RefreshAccessTokenAnswered(r)
  \/ \E o \in WriteOutcomes : RefreshAccessTokenSaved(o)

StoreInit == tm = TmIdle /\ rf = RfIdle

StoreNext ==
  \/ GetTokensCall
  \/ \E ok \in BOOLEAN : GetTokensSettles(ok)
  \/ \E credentials \in TokenSets : SaveTokensCall(credentials)
  \/ \E outcome \in WriteOutcomes : SaveTokensSettles(outcome)
  \/ Restart

vars == <<credVars, regVars, storeVars, indexVars>>

\* The credential lifecycle: no streaming session is opened.
Init == CredInit /\ RegInit /\ StoreInit /\ IndexInit
Spec == Init /\ [][CredNext]_vars

\* The polling cycle while the credentials are not cleared: Server.start,
\* the checks and OAuth callbacks, and no POST /revoke.  The cache, once
\* populated, stays populated, so no check and no setupClientWithTokens
\* awaits a read of the file.
\* The next step of closure c: its timer fires, or the provider call or the
\* write it awaits settles.  At most one of these is enabled.
ChainStep(c) ==
  \/ TimerFires(c)
  \/ \E r \in ProviderTokens(now, RotatedRefreshToken) : RefreshResponse(c, r)
  \/ RefreshFails(c)
  \/ \E o \in WriteOutcomes : RefreshSaved(c, o)

PollNext ==
  \/ StartInitialize
  \/ \E ok \in BOOLEAN : StartRead(ok)
  \/ \E c \in ChainIds : ChainStep(c)
  \/ CallbackStart
  \/ ExchangeFails
  \/ \E r \in ProviderTokens(now, GrantedRefreshToken) : ExchangeResponse(r)
  \/ \E o \in WriteOutcomes : ExchangeSaved(o)
  \/ \E o \in WriteOutcomes : AuthCodeSaved(o)
  \/ Tick

\* The scheduling Node provides: the clock advances, a timer that is due
\* fires, and every awaited write and provider call settles.
Fairness ==
  /\ WF_vars(Tick)
  /\ \A c \in ChainIds : WF_vars(ChainStep(c))

PollSpec == Init /\ [][PollNext]_vars /\ Fairness

\* The session registry: the token file is absent and no OAuth request
\* arrives; the MCP server is created by McpServerCreated.
RegistryInit == CredInit /\ file = NoFile /\ RegInit /\ StoreInit /\ IndexInit
RegistrySpec == RegistryInit /\ [][RegNext]_vars

\* The GET /sse handler of index.ts alone, with the clock.
IndexSpec == Init /\ [][IndexNext]_vars

\* The keepAlive interval of index.ts: connections are opened, break and
\* close while the clock stands still.
KeepAliveSpec == Init /\ [][KeepAliveNext]_vars

\* refreshAccessToken called by hand after start-up: the scheduled checks,
\* which call it only with a refresh token, are left to Spec.
ServiceInit == Init /\ file \in {NoFile, Stringify(Creds(1, Absent, 4))}
ServiceSpec == ServiceInit /\ [][ServiceNext]_vars

\* The TokenManager alone: Server.start is not run and no request arrives.
StoreSpec == Init /\ [][StoreNext]_vars

\* ================================================================ claims

\* what getTokens() returns when run to completion with nothing in between
getTokensValue ==
  IF tokens # Null THEN tokens
  ELSE IF IsJson(file) THEN Parse(file) ELSE Null

\* what isAuthenticated() returns when run to completion
isAuthenticated == hasValidTokensOf(getTokensValue)

liveChains == {c \in ChainIds : chains[c].pc # "free"}

\* C1: when the provider's revoke call fails, the cache and the token file are
\* empty at the moment the revoke operation returns.
C1_RevokeClearsDespiteProviderFailure ==
  [][(rv.pc = "revoking" /\ rv'.pc = "idle" /\ rv'.providerFailed)
       => (tokens' = Null /\ file' = NoFile)]_vars

\* C2: at most one refresh timer or poll chain (a pending timer, or a check
\* suspended at an await that will install one) exists at any time.
C2_AtMostOneRefreshChain == Cardinality(liveChains) <= 1

\* C3: exchangeCode never calls saveTokens with tokens that lack a refresh
\* token, and the call that fails for a missing refresh token leaves the cache
\* and the file as they were.
C3_ExchangeRequiresRefreshToken ==
  /\ [](cb.pc \in {"save1", "save2", "setup"}
          => cb.tokens.refresh_token # Absent)
  /\ [][(cb.pc = "getToken" /\ cb'.result = "no_refresh_token")
          => (cb'.pc = "idle" /\ tokens' = tokens /\ file' = file)]_vars

C3_Witness ==
  /\ cb.result = "no_refresh_token"
  /\ tokens # Null
  /\ tokens.refresh_token # Absent

\* C4: the tokens a refresh saves carry the refresh token R the refresh was
\* started with whenever the provider's answer has none, they never lack a
\* refresh token, and they are what a successful write leaves in the file.
C4_RefreshKeepsRefreshToken ==
  /\ [](\A c \in ChainIds : chains[c].pc = "saving" =>
          /\ chains[c].tokens.refresh_token # Absent
          /\ chains[c].newTokens.refresh_token =
               (IF chains[c].response = Absent
                  THEN chains[c].tokens.refresh_token
                  ELSE chains[c].response))
  /\ [][\A c \in ChainIds :
          (chains[c].pc = "saving" /\ chains'[c].last = "refreshed")
            => /\ file' = Stringify(chains[c].newTokens)
               /\ Parse(file').refresh_token # Absent]_vars

C4_Witness ==
  \E c \in ChainIds :
    /\ chains[c].pc = "saving"
    /\ chains[c].response = Absent
    /\ tokens = chains[c].newTokens
    /\ tokens.refresh_token = GrantedRefreshToken

\* C5: the step in which a refresh fails at the provider leaves the cache and
\* the file as they were and does not change what isAuthenticated() returns.
C5_FailedRefreshKeepsCredentials ==
  [][\A c \in ChainIds :
       (chains[c].pc = "refreshing" /\ chains'[c].pc = "timer")
         => /\ tokens' = tokens
            /\ file' = file
            /\ isAuthenticated' = isAuthenticated]_vars

C5_Witness ==
  \E c \in ChainIds :
    /\ chains[c].last = "failed"
    /\ tokens # Null
    /\ isAuthenticated


\* the registry holds nothing for id: no transport, no handle, no live timer
cleaned(id) ==
  /\ transports[id] = Absent
  /\ heartbeatIntervals[id] = Absent
  /\ id \notin intervals

messagesAnswers == {a \in responses : a.route = "messages"}

\* C6: a POST /messages to an id that was never opened and one to an id that
\* was opened and then closed are never answered with the same error.
C6_ClosedDistinctFromUnknown ==
  \A a, b \in messagesAnswers :
    (a.was = "never" /\ b.was = "closed") => a.answer # b.answer

\* C7: every step of a POST /messages leaves the registry, the timers and the
\* streams as they were, looks up the transport that the /sse request of the
\* routed id created, and hands the message to no other transport.
C7_RouteDeliversToOwnTransportOnly ==
  [][msg' # msg =>
       /\ transports' = transports
       /\ heartbeatIntervals' = heartbeatIntervals
       /\ intervals' = intervals
       /\ sse' = sse
       /\ (msg'.pc = "handling" => msg'.transport = msg'.sessionId)
       /\ (received' \ received) \subseteq {msg.sessionId}]_vars

C7_Witness ==
  \E a, b \in SessionIds :
    /\ a # b
    /\ sessionState(a) = "open"
    /\ sessionState(b) = "open"
    /\ transports[b] = b
    /\ received = {a}
    /\ [route |-> "messages", was |-> "open", answer |-> "202"] \in responses

\* C8: when the 'close' or the 'error' handler of an id has run, and when the
\* heartbeat stops itself after one of them has run, the registry holds no
\* transport and no heartbeat timer for that id; a cleanup that finds the id
\* already cleaned changes nothing in the registry.
C8_CleanupIdempotent ==
  [][\A id \in SessionIds :
       LET handler == \/ sse'[id].closed # sse[id].closed
                      \/ sse'[id].errored # sse[id].errored
           selfClose == id \in intervals /\ id \notin intervals' /\ ~handler
           before == sse[id].closed \/ sse[id].errored
       IN  (handler \/ (selfClose /\ before)) =>
             /\ cleaned(id)'
             /\ cleaned(id) => UNCHANGED <<transports, heartbeatIntervals, intervals>>
             /\ \A other \in SessionIds \ {id} :
                  /\ transports'[other] = transports[other]
                  /\ heartbeatIntervals'[other] = heartbeatIntervals[other]
                  /\ (other \in intervals') = (other \in intervals)]_vars

C8_Witness ==
  \E id \in SessionIds :
    /\ sse[id].pc = "streaming"
    /\ sse[id].errored
    /\ sse[id].closed
    /\ cleaned(id)

\* C9: the step in which the heartbeat of an id stops itself (the stream is
\* not writable, or the write threw) removes the timer and the transports
\* entry of that id.
C9_LivenessClosesSession ==
  [][\A id \in SessionIds :
       (id \in intervals /\ id \notin intervals' /\ sse'[id] = sse[id])
         => (transports'[id] = Absent /\ heartbeatIntervals'[id] = Absent)]_vars

\* C10: a heartbeat timer exists only for an id whose transport is registered
\* and whose stream has not closed, and once the 'close' of an id was handled
\* the registry holds neither its transport nor a timer for it.
C10_HeartbeatOnlyWhileOpen ==
  \A id \in SessionIds :
    /\ (heartbeatIntervals[id] # Absent \/ id \in intervals)
         => (transports[id] # Absent /\ ~sse[id].closed)
    /\ sse[id].closed => cleaned(id)

\* C11: what hasValidTokens() / isAuthenticated() returns is TRUE exactly when
\* the store holds tokens that carry a refresh token, whatever the other
\* fields are.
C11_ValidIffRefreshToken ==
  isAuthenticated <=>
    (getTokensValue # Null /\ getTokensValue.refresh_token # Absent)

\* C12: a getTokens() call that finds the cache populated returns it and reads
\* nothing; with an empty cache and no file it returns null; with an empty
\* cache and a file it reads the file and returns what it leaves in the
\* cache, the parsed content, or null when the read failed or the content is
\* not JSON.  It never changes the file and never throws.
C12_GetTokensContract ==
  /\ [](tm.op = "getTokens" => tm.result # "threw")
  /\ [][(tm' # tm /\ tm'.op = "getTokens" /\ tm'.result = "returned") =>
          /\ file' = file
          /\ tokens # Null =>
               (tm'.value = tokens /\ tokens' = tokens /\ ~tm'.read)
          /\ (tokens = Null /\ file = NoFile) =>
               (tm'.value = Null /\ tokens' = Null /\ ~tm'.read)
          /\ (tokens = Null /\ file # NoFile) =>
               /\ tm'.read
               /\ tokens' = tm'.value
               /\ tm'.value = (IF tm'.readOk /\ IsJson(file)
                                 THEN Parse(file) ELSE Null)]_vars

C12_Witness ==
  /\ tm.op = "getTokens"
  /\ tm.result = "returned"
  /\ tm.read
  /\ tm.readOk
  /\ file = Corrupt
  /\ tm.value = Null
  /\ tokens = Null

\* C13: a getTokens() that read the file successfully (the cache was empty,
\* as in a fresh process) returns, field for field, the argument of the last
\* saveTokens that returned, and nothing of what the file held before it.
C13_SaveLoadRoundTrip ==
  (/\ tm.op = "getTokens"
   /\ tm.result = "returned"
   /\ tm.read
   /\ tm.readOk
   /\ tm.saved # Null)
    => /\ tm.value = tm.saved
       /\ \A f \in CredentialFields : tm.value[f] = tm.saved[f]

C13_Witness ==
  /\ tm.op = "getTokens"
  /\ tm.result = "returned"
  /\ tm.read
  /\ tm.readOk
  /\ tm.replaced
  /\ tm.value = tm.saved
  /\ tm.value.refresh_token = Absent
  /\ tm.value.expiry_date # Absent

\* C14: when the last clearTokens() of a revoke has returned, the token file
\* is absent, the cache is empty, no refresh timer is pending and no check is
\* suspended that would install one.
C14_ClearTokensLeavesNothing ==
  [][(rv.pc # "idle" /\ rv'.pc = "idle" /\ rv'.result = "ok")
       => /\ file' = NoFile
          /\ tokens' = Null
          /\ refreshTimerId' = 0
          /\ liveChains' = {}]_vars

\* the tokens of the store call for a refresh at the present time
refreshIsDue ==
  /\ tokens # Null
  /\ tokens.refresh_token # Absent
  /\ tokens.expiry_date # Absent
  /\ tokens.expiry_date - now < RefreshLeadTime

\* C15: a check that has read the tokens goes on to a refresh exactly when
\* they have a refresh token and an expiry less than the lead time away; it
\* then has invoked the listener once and called the provider once, and
\* otherwise it has done neither; the counts do not change for the rest of
\* the check.
C15_RefreshExactlyWhenDue ==
  [][\A c \in ChainIds :
       /\ (/\ chains[c].pc \in {"free", "timer", "read"}
           /\ chains'[c].pc \in {"refreshing", "timer"}
           /\ chains'[c] # chains[c])
            => IF refreshIsDue'
                 THEN /\ chains'[c].pc = "refreshing"
                      /\ chains'[c].listenerCalls = 1
                      /\ chains'[c].providerCalls = 1
                 ELSE /\ chains'[c].pc = "timer"
                      /\ chains'[c].last = "skipped"
                      /\ chains'[c].listenerCalls = 0
                      /\ chains'[c].providerCalls = 0
       /\ chains[c].pc \in {"refreshing", "saving", "setup"}
            => /\ chains'[c].listenerCalls = chains[c].listenerCalls
               /\ chains'[c].providerCalls = chains[c].providerCalls]_vars

C15_Witness ==
  \E c \in ChainIds :
    /\ chains[c].pc = "refreshing"
    /\ chains[c].by = "timer"
    /\ chains[c].listenerCalls = 1
    /\ chains[c].providerCalls = 1
    /\ chains[c].tokens.expiry_date > now

inFlight == {"read", "refreshing", "saving", "setup"}

\* C16: every check, however it ends (refreshed, skipped, failed or threw),
\* ends by installing its timer one polling interval from now and storing it
\* in refreshTimerId, and nothing else ends a check in progress; and again
\* and again every check in progress has come to that end and every timer
\* that was due has fired or was cancelled.
C16_PollingNeverStops ==
  /\ [][\A c \in ChainIds :
          (chains[c].pc # "timer" /\ chains'[c].pc = "timer")
            => /\ chains'[c].due = now + TokenRefreshInterval
               /\ chains'[c].last \in {"refreshed", "skipped", "failed", "threw"}
               /\ refreshTimerId' = c]_vars
  /\ [][\A c \in ChainIds :
          chains[c].pc \in inFlight => chains'[c].pc \in inFlight \cup {"timer"}]_vars
  /\ []<>(\A c \in ChainIds :
            /\ chains[c].pc \notin inFlight
            /\ chains[c].pc = "timer" => chains[c].due > now)

C16_Witness ==
  \E c \in ChainIds :
    /\ chains[c].pc = "timer"
    /\ chains[c].last = "failed"
    /\ chains[c].due = MaxNow
    /\ now = MaxNow
    /\ tokens # Null

\* C17: Server.start can always take its next step and its read of the token
\* file, however it settles, brings it to listening; the MCP server is
\* created exactly when the store then holds valid tokens; with no file, an
\* unreadable file or a corrupt one the cache stays empty, initialize() has
\* returned false, and no client, MCP server or refresh cycle was set up.
C17_StartAlwaysListens ==
  /\ [](/\ st = "start" => ENABLED StartInitialize
        /\ st = "initRead" => \A ok \in BOOLEAN : ENABLED StartRead(ok))
  /\ [][st = "initRead" /\ st' # st => st' = "listening"]_vars
  /\ [][(st # "listening" /\ st' = "listening") =>
          /\ mcpServer' = hasValidTokensOf(tokens')
          /\ ~hasValidTokensOf(tokens') =>
               (liveChains' = {} /\ ~calendar' /\ client' = Null)
          /\ (file \in {NoFile, Corrupt} \/ tokens' = Null) =>
               (tokens' = Null /\ ~mcpServer')]_vars

C17_Witness ==
  /\ st = "listening"
  /\ file = Corrupt
  /\ tokens = Null
  /\ ~mcpServer
  /\ served.callback = 0

\* No credential operation (start-up, scheduled check, OAuth callback,
\* revoke) is between two of its steps.
quiescent ==
  /\ st = "listening"
  /\ cb.pc = "idle"
  /\ rv.pc = "idle"
  /\ \A c \in ChainIds : chains[c].pc \notin inFlight

\* C18: whenever no credential operation is in flight, a calendar client
\* that exists carries exactly the credentials the store currently returns.
C18_ClientBoundToStoredTokens ==
  (quiescent /\ calendar) => (getTokensValue # Null /\ client = getTokensValue)

\* C19: two GET /sse requests whose connections are both open carry distinct
\* session ids, and a request never stores its response under an id that
\* already keys an entry of activeConnections.
C19_DistinctSessionIds ==
  /\ [](\A a, b \in 1..Len(opened) :
          (a # b /\ ~opened[a].closed /\ ~opened[b].closed) =>
            opened[a].sessionId # opened[b].sessionId)
  /\ [][\A id \in IndexSessionIds :
          (activeConnections[id] # Absent /\ activeConnections'[id] # Absent) =>
            activeConnections'[id] = activeConnections[id]]_vars

\* revokeAccess() has returned success
revoked == rv.pc = "idle" /\ rv.result = "ok"

\* C20: when revokeAccess() returns success the store is empty and
\* isAuthenticated() is false, and from then on no step other than a step of
\* the OAuth callback's code exchange makes the store hold credentials again.
C20_RevokedStaysRevoked ==
  [][(revoked' /\ cb' = cb) =>
       IF revoked
         THEN (getTokensValue = Null => (getTokensValue' = Null /\ ~isAuthenticated'))
         ELSE (getTokensValue' = Null /\ ~isAuthenticated')]_vars

\* C21: a refreshAccessToken(tokens) call whose tokens carry no refresh token
\* has thrown by the end of the step that made it, without a call of the
\* provider or of saveTokens, and the cache, the token file, the OAuth
\* client's credentials and the calendar client are as they were.
C21_NoRefreshTokenFailsAtOnce ==
  [][(rf.pc = "idle" /\ rf' # rf /\ rf'.arg.refresh_token = Absent) =>
       /\ rf'.pc = "idle"
       /\ rf'.result = "threw"
       /\ rf'.providerCalls = 0
       /\ rf'.saves = 0
       /\ UNCHANGED <<tokens, file, client, calendar>>]_vars

C21_Witness ==
  /\ rf.pc = "idle"
  /\ rf.result = "threw"
  /\ rf.providerCalls = 0
  /\ rf.arg # Null
  /\ rf.arg.refresh_token = Absent
  /\ rf.arg.access_token # Absent
  /\ tokens # Null

\* C22: when the OAuth callback's exchange and a scheduled refresh have both
\* run to success and nothing is in flight (no revoke was ever requested, no
\* check ended in an error), the token file is the text of the cached
\* TokenSet, which is the argument of the saveTokens call issued last.
C22_LastSaveWinsEverywhere ==
  (/\ quiescent
   /\ served.revoke = 0
   /\ cb.result = "ok"
   /\ \E c \in ChainIds : chains[c].last = "refreshed"
   /\ \A c \in ChainIds : chains[c].last \notin {"threw", "failed"})
  => (tokens # Null /\ file = Stringify(tokens))

\* a saveTokens or a clearTokens call is awaiting writeFile or unlink
saveOrClearInFlight ==
  \/ \E c \in ChainIds : chains[c].pc = "saving"
  \/ cb.pc \in {"save1", "save2"}
  \/ rv.pc \in {"unlink1", "unlink2"}

\* C23: when a saveTokens of the scheduled refresh overlapped the clearTokens
\* of a revoke (its write settled with the cache already emptied) and both
\* calls have completed without an error, the cache and the token file agree:
\* both are empty, or the file is the text of the cached TokenSet.
C23_SaveAndClearAgree ==
  (/\ revoked
   /\ ~saveOrClearInFlight
   /\ \E c \in ChainIds : chains[c].pc = "setup")
  => \/ tokens = Null /\ file = NoFile
     \/ tokens # Null /\ file = Stringify(tokens)

\* C24: the 'close' or 'error' event of one session's stream leaves that
\* session without a registry entry and without a heartbeat timer, cancels
\* no timer but the one recorded for it, and leaves the registry entry, the
\* recorded handle and the timer of every other session as they were.
C24_CloseTouchesOwnSessionOnly ==
  [][\A id \in SessionIds :
       (sse'[id].closed # sse[id].closed \/ sse'[id].errored # sse[id].errored) =>
         /\ transports'[id] = Absent
         /\ heartbeatIntervals'[id] = Absent
         /\ id \notin intervals'
         /\ intervals' = intervals \ {heartbeatIntervals[id]}
         /\ \A other \in SessionIds \ {id} :
              /\ transports'[other] = transports[other]
              /\ heartbeatIntervals'[other] = heartbeatIntervals[other]
              /\ (other \in intervals' <=> other \in intervals)]_vars

C24_Witness ==
  \E id, other \in SessionIds :
    /\ id # other
    /\ sse[id].pc = "streaming"
    /\ sse[id].closed
    /\ transports[id] = Absent
    /\ id \notin intervals
    /\ sse[other].pc = "streaming"
    /\ ~sse[other].closed /\ ~sse[other].errored
    /\ transports[other] # Absent
    /\ heartbeatIntervals[other] # Absent
    /\ other \in intervals

\* C25: a POST /messages that does not end in the 202 of a delivered message
\* (no transport under the id, or an error while handling) ends with an
\* answer written to its caller, and its steps leave transports,
\* heartbeatIntervals and the running timers as they were.
C25_FailedRouteReportedAndHarmless ==
  [][\A rec \in responses' \ responses :
       (rec.route = "messages" /\ rec.answer # "202") =>
         /\ rec.answer # "none"
         /\ UNCHANGED <<transports, heartbeatIntervals, intervals>>]_vars

\* C26: a revokeAccess() that starts with the cache and the token file both
\* empty returns success in that same step, without a call of the provider,
\* leaving the store empty; and the provider's revoke is only ever called
\* when getTokens returned a TokenSet with an access token.
C26_RevokeOfEmptyStore ==
  /\ [][(rv.pc = "idle" /\ rv' # rv /\ tokens = Null /\ file = NoFile) =>
          /\ rv'.pc = "idle"
          /\ rv'.result = "ok"
          /\ ~rv'.providerFailed
          /\ tokens' = Null
          /\ file' = NoFile
          /\ refreshTimerId' = 0
          /\ ~calendar']_vars
  /\ [][(rv.pc # "revoking" /\ rv'.pc = "revoking") =>
          (tokens' # Null /\ tokens'.access_token # Absent)]_vars

C26_Witness ==
  /\ rv.pc = "idle"
  /\ rv.result = "ok"
  /\ served.revoke = 1
  /\ served.callback = 0
  /\ client = Null
  /\ tokens = Null
  /\ file = NoFile

\* C27: a setupClientWithTokens whose getTokens() returned null throws and
\* builds nothing; and when revokeAccess() returns success the calendar
\* client is null (every calendar operation throws 'not initialized') and
\* stays null through every step that is not a step of the OAuth callback.
C27_NoClientWithoutCredentials ==
  /\ [][\A c \in ChainIds :
          (chains[c].pc = "setup" /\ chains'[c].pc # "setup" /\ tokens' = Null) =>
            (chains'[c].last = "threw" /\ calendar' = calendar /\ client' = client)]_vars
  /\ [][(cb.pc = "setup" /\ cb'.pc # "setup" /\ tokens' = Null) =>
          (cb'.result = "error" /\ calendar' = calendar /\ client' = client)]_vars
  /\ [][(revoked' /\ cb' = cb) =>
          IF revoked THEN (~calendar => ~calendar') ELSE ~calendar']_vars

\* isUsable(): a TokenSet is present and carries a refresh token
isUsable(t) == t # Null /\ t.refresh_token # Absent

\* C28: initialize() as Server.start and the OAuth callback call it returns
\* true exactly when the stored TokenSet is usable; when it returned true the
\* calendar client is built from the stored TokenSet and a refresh cycle is
\* running; when it returned false the call created no client, no closure
\* and no timer.
C28_InitializeTrueIffUsable ==
  /\ [][(st # "listening" /\ st' = "listening") =>
          /\ mcpServer' <=> isUsable(tokens')
          /\ mcpServer' => /\ calendar' /\ client' = tokens'
                           /\ tokenRefreshListener' /\ liveChains' # {}
          /\ ~mcpServer' => /\ calendar' = calendar /\ client' = client
                            /\ chains' = chains
                            /\ refreshTimerId' = refreshTimerId]_vars
  /\ [][(cb.pc # "idle" /\ cb'.pc = "idle" /\ cb'.result \in {"ok", "init_failed"}) =>
          /\ cb'.result = "ok" <=> isUsable(tokens')
          /\ cb'.result = "ok" => /\ mcpServer' /\ calendar' /\ client' = tokens'
                                  /\ tokenRefreshListener' /\ liveChains' # {}
          /\ cb'.result = "init_failed" => /\ chains' = chains
                                           /\ refreshTimerId' = refreshTimerId
                                           /\ mcpServer' = mcpServer]_vars

\* C29: a GET /oauth/callback whose code exchange is rejected by the provider
\* or answered without a refresh token ends in an error answer, and neither
\* its first step nor its failing step changes the cache, the token file,
\* the refresh timer and closures, the OAuth client's credentials, the
\* calendar client or the MCP server.
C29_FailedExchangeChangesNothing ==
  [][((cb.pc = "idle" /\ cb'.pc = "getToken") \/ (cb.pc = "getToken" /\ cb'.pc = "idle")) =>
       /\ cb'.pc = "idle" => cb'.result \in {"error", "no_refresh_token"}
       /\ UNCHANGED <<tokens, file, refreshTimerId, tokenRefreshListener, chains,
                      client, calendar, mcpServer>>]_vars

C29_Witness ==
  /\ cb.pc = "idle"
  /\ cb.result = "no_refresh_token"
  /\ served.revoke = 0
  /\ tokens # Null
  /\ file = Stringify(tokens)
  /\ client = tokens
  /\ calendar
  /\ mcpServer
  /\ \E c \in ChainIds : chains[c].pc = "timer" /\ refreshTimerId = c

\* the store returns a TokenSet that has no refresh token
storedWithoutRefreshToken ==
  getTokensValue # Null /\ getTokensValue.refresh_token = Absent

\* C30: a provider refresh call is only ever under way for a TokenSet with a
\* refresh token, and while the store returns a TokenSet without one, no
\* step other than a step of the OAuth callback or of a revoke changes what
\* the store returns or starts a provider refresh call.
C30_NoRefreshTokenIsTerminal ==
  /\ [](\A c \in ChainIds :
          chains[c].pc = "refreshing" => chains[c].tokens.refresh_token # Absent)
  /\ [][(storedWithoutRefreshToken /\ cb' = cb /\ rv' = rv) =>
          /\ getTokensValue' = getTokensValue
          /\ \A c \in ChainIds :
               chains'[c].pc = "refreshing" => chains[c].pc = "refreshing"]_vars

C30_Witness ==
  /\ st = "listening"
  /\ now = MaxNow
  /\ storedWithoutRefreshToken
  /\ tokens # Null
  /\ tokens.expiry_date <= now
  /\ served.callback = 1
  /\ cb.pc = "idle"
  /\ \A c \in ChainIds : chains[c].providerCalls = 0

C32_FailedSaveLeavesStoreAsBefore ==
  (tm.pc = "idle" /\ tm.op = "saveTokens" /\ tm.result = "threw") =>
    /\ getTokensValue = tm.before
    /\ tokens # Null => file = Stringify(tokens)

\* C33: the step in which a clearTokens call throws (its unlink failed)
\* leaves getTokens() returning what it returned when the call was made, and
\* cancels no refresh timer.
C33_FailedClearLeavesStoreAsBefore ==
  [][(rv.pc \in {"unlink1", "unlink2"} /\ rv'.pc = "idle" /\ rv'.result = "error") =>
       /\ getTokensValue' = rv.before
       /\ refreshTimerId' = refreshTimerId
       /\ chains' = chains]_vars

\* The /sse gate together with start-up and POST /revoke: no scheduled check
\* runs and no OAuth callback arrives.
GatewayNext ==
  \/ StartInitialize
  \/ \E ok \in BOOLEAN : StartRead(ok)
  \/ RevokeStart
  \/ \E ok \in BOOLEAN : RevokeRead(ok)
  \/ RevokeProviderFails
  \/ RevokeProviderDone
  \/ \E ok \in BOOLEAN : RevokeTokensUnlinked(ok)
  \/ \E ok \in BOOLEAN : RevokeAccessUnlinked(ok)
  \/ SseRejected
  \/ SseOpen
  \/ \E id \in SessionIds : SseConnected(id)
  \/ \E id \in SessionIds : ResClose(id)

GatewaySpec == Init /\ [][GatewayNext]_vars

\* C34: no step accepts a GET /sse (registers its transport) while
\* isAuthenticated() is false, in particular after a successful revokeAccess():
\* the only answer such a request gets is the gate's 401.
C34_SessionOnlyWhileAuthenticated ==
  [][\A id \in SessionIds :
       (transports[id] = Absent /\ transports'[id] # Absent) => isAuthenticated]_vars

\* C35: every POST /messages request ends with one answer written: the 202 of
\* a message handed to the transport registered under its id, or a failure
\* status when no transport is registered under the id or handling the message
\* raised an error; no request ends without an answer.
C35_EveryMessageAnswered ==
  [][/\ \A rec \in responses' \ responses :
          rec.route = "messages" =>
            /\ rec.answer \in {"202", "sdk error",
                               "400 No transport found for the sessionId"}
            /\ rec.answer = "202" => msg.transport \in received'
     /\ (msg.pc = "handling" /\ msg'.pc = "idle") =>
          \E rec \in responses' : rec.route = "messages" /\ rec.was = msg.was
                                  /\ rec.answer # "none"]_vars

\* C36: every heartbeat frame written to a connection was written while its
\* channel was writable and before its 'close' was handled.
C36_NoHeartbeatAfterClose ==
  \A res \in 1..Len(opened) :
    \A frame \in opened[res].frames : frame.writable /\ ~frame.closed

\* The heartbeat of the router's /sse sessions: sessions are opened, connect,
\* break and close; no POST /messages arrives.
HeartbeatNext ==
  \/ McpServerCreated
  \/ SseOpen
  \/ \E id \in SessionIds : SseConnected(id)
  \/ \E id \in SessionIds : SseConnectFails(id)
  \/ \E id \in SessionIds : ChannelDies(id)
  \/ \E id \in SessionIds : ResClose(id)
  \/ \E id \in SessionIds : ResError(id)
  \/ \E id \in SessionIds, writeThrows \in BOOLEAN : HeartbeatFires(id, writeThrows)

\* setInterval keeps firing a timer that has not been cleared (a firing that
\* writes its frame changes nothing and is no step).
HeartbeatFairness == \A id \in SessionIds : WF_vars(HeartbeatFires(id, FALSE))

HeartbeatSpec == RegistryInit /\ [][HeartbeatNext]_vars /\ HeartbeatFairness

=============================================================================
